---- MODULE Spec2Model ----
(***************************************************************************)
(* Lead table of the CRM: the schema evolver init_db, the CRUD operations  *)
(* and the filter/query builder of crm_lead_manager.py (prefix lm_) and of *)
(* enhanced_crm.py (no prefix), over one SQLite file that the older        *)
(* program creates and the newer program takes over and migrates.          *)
(*                                                                         *)
(* Text values are sequences of one-character strings; SQL NULL / Python   *)
(* None is the one-element sequence NULL.  Timestamps are whole seconds    *)
(* (the ISO text _now() makes orders the same way as the second count).    *)
(* The process is taken to run in the script's directory, so the absolute  *)
(* DB_PATH and the fallback path of init_db name the same file.            *)
(***************************************************************************)
EXTENDS Integers, Sequences, FiniteSets, TLC

\* ---------------------------------------------------------------- bounds
MaxLeads == 2        \* rows ever inserted into the file (ids 1..MaxLeads)
MaxTime == 1         \* the clock runs over 0..MaxTime seconds
RandHi == 11         \* random.randint(RandLo, RandHi); the program's is 99
RandLo == 10

\* ------------------------------------------------------------ text values
NULL == <<"NULL">>
EMPTY == <<>>
NULLT == -1          \* NULL in a timestamp column

Truthy(v) == v # NULL /\ v # EMPTY

Upper == <<"A","B","C","D","E","F","G","H","I","J","K","L","M",
           "N","O","P","Q","R","S","T","U","V","W","X","Y","Z">>
Lower == <<"a","b","c","d","e","f","g","h","i","j","k","l","m",
           "n","o","p","q","r","s","t","u","v","w","x","y","z">>

\* SQLite folds the 26 ASCII letters when LIKE compares
Fold(c) ==
  IF \E i \in 1..26 : Upper[i] = c
  THEN Lower[CHOOSE i \in 1..26 : Upper[i] = c]
  ELSE c

IsSpace(c) == c = " "

RECURSIVE lstrip(_)
lstrip(s) == IF s # <<>> /\ IsSpace(Head(s)) THEN lstrip(Tail(s)) ELSE s

RECURSIVE rstrip(_)
rstrip(s) ==
  IF s # <<>> /\ IsSpace(s[Len(s)]) THEN rstrip(SubSeq(s, 1, Len(s) - 1)) ELSE s

\* str.strip()
strip(s) == rstrip(lstrip(s))

\* str.startswith
startswith(s, p) == Len(s) >= Len(p) /\ SubSeq(s, 1, Len(p)) = p

\* SQLite's LIKE: % is any run of characters, _ any one character,
\* letters compare case-insensitively; NULL LIKE p is not true
RECURSIVE LikeMatch(_, _)
LikeMatch(p, s) ==
  IF p = <<>> THEN s = <<>>
  ELSE IF Head(p) = "%"
       THEN LikeMatch(Tail(p), s) \/ (s # <<>> /\ LikeMatch(p, Tail(s)))
       ELSE /\ s # <<>>
            /\ (Head(p) = "_" \/ Fold(Head(p)) = Fold(Head(s)))
            /\ LikeMatch(Tail(p), Tail(s))

Like(v, p) == v # NULL /\ LikeMatch(p, v)

\* the pattern without its leading %, matching at the start only
Wrap_prefix(q) == q \o <<"%">>

\* f"%{q}%"
Wrap(q) == <<"%">> \o q \o <<"%">>

Digits == <<"0","1","2","3","4","5","6","7","8","9">>
Digit(k) == Digits[k + 1]

\* ------------------------------------------------------------------ clock
TicksPerDay == 2     \* seconds of the model's clock in one calendar day

\* today.strftime("%d%m%Y"); the model's clock stays inside January 2026
DatePart(t) ==
  LET d == 1 + (t \div TicksPerDay)
  IN  <<Digit(d \div 10), Digit(d % 10), "0", "1", "2", "0", "2", "6">>

RandRange == RandLo..RandHi

\* GDC-XX-DDMMYYYY for the random draw n at time t
_generate_ref(n, t) ==
  <<"G","D","C","-">> \o <<Digit(n \div 10), Digit(n % 10)>> \o <<"-">> \o DatePart(t)

\* ----------------------------------------------------------------- schema
STATUSES ==
  << <<"N","e","w">>,
     <<"C","o","n","t","a","c","t","e","d">>,
     <<"Q","u","a","l","i","f","i","e","d">>,
     <<"I","n"," ","P","r","o","g","r","e","s","s">>,
     <<"W","o","n">>,
     <<"L","o","s","t">>,
     <<"C","l","o","s","e","d">> >>
SOURCES ==
  << <<"W","e","b","s","i","t","e">>,
     <<"R","e","f","e","r","r","a","l">>,
     <<"E","m","a","i","l">>,
     <<"P","h","o","n","e">>,
     <<"S","o","c","i","a","l">>,
     <<"E","v","e","n","t">>,
     <<"O","t","h","e","r">> >>

InSeq(v, s) == \E i \in 1..Len(s) : s[i] = v

\* columns of the CREATE TABLE of crm_lead_manager.py
LmCols ==
  {"id", "name", "email", "phone", "company", "source", "owner", "status",
   "value", "tags", "notes", "created_at", "updated_at"}

\* columns of the CREATE TABLE of enhanced_crm.py
EnCols ==
  {"id", "ref_number", "name", "email", "phone", "place", "street_address",
   "city", "state", "zip_code", "country", "full_address", "source", "owner",
   "status", "value", "tags", "notes", "preferred_date", "preferred_time",
   "created_at", "updated_at"}

IndexNames == {"idx_leads_ref", "idx_leads_status", "idx_leads_created"}

Fields == (LmCols \cup EnCols) \ {"id"}
TimeFields == {"created_at", "updated_at"}
address_fields == {"street_address", "city", "state", "zip_code", "country"}

\* what a column holds when an INSERT leaves it out
DefaultOf(f) ==
  IF f = "status" THEN STATUSES[1]
  ELSE IF f = "value" THEN 0
  ELSE IF f \in TimeFields THEN NULLT
  ELSE NULL

\* dict.get(k, d): the default only when the key is absent
Get(d, k, dflt) == IF k \in DOMAIN d THEN d[k] ELSE dflt

\* ------------------------------------------------------------------ state
VARIABLES
  app,          \* program whose startup last ran on the file: none, lm, en;
                \* halted after a startup of enhanced_crm that was stopped
  DB_PATH,      \* enhanced_crm's global: "abs", or "rel" after the fallback
  tableExists,  \* the leads table is in sqlite_master
  cols,         \* its columns
  refUnique,    \* ref_number carries the UNIQUE constraint
  indexes,      \* the named indexes on it
  rows,         \* id -> row, a function over Fields
  seq,          \* sqlite_sequence: the largest id AUTOINCREMENT has given
  now,          \* the clock, whole seconds
  last,         \* the last call: [op, id, ret]
  sessions      \* browser session -> the lead its edit form or grid shows

vars == <<app, DB_PATH, tableExists, cols, refUnique, indexes, rows, seq, now, last, sessions>>
schema == <<tableExists, cols, refUnique, indexes>>

Ids == 1..MaxLeads

\* op, the lead id it was about (0: none), what it returned or reported,
\* the columns the caller set and the id a grid save deleted
\* and the number of rows an import reported
\* the number of rows an import reported, and for a fetch the filters it was
\* given and the ids of the rows of the frame it returned, in order
CallK(op, id, ret, keys, deleted) ==
  [op |-> op, id |-> id, ret |-> ret, keys |-> keys, deleted |-> deleted,
   count |-> 0, filters |-> <<>>, out |-> <<>>]
Call(op, id, ret) == CallK(op, id, ret, {}, 0)
Imported(op, n) == [Call(op, 0, "ok") EXCEPT !.count = n]
\* a start of enhanced_crm: count is 2 when the call before it was a start
\* too, keys are the columns the run added to a table that was there
Started(ret, before, added) ==
  [Call("init_db", 0, ret) EXCEPT !.count = IF before.op = "init_db" THEN 2 ELSE 1,
                                  !.keys = added]
Fetched(op, ret, filters, out) ==
  [Call(op, 0, ret) EXCEPT !.filters = filters, !.out = out]

\* a save of the edit form or grid by session s
Saved(op, id, ret, keys, s) == [CallK(op, id, ret, keys, 0) EXCEPT !.count = s]

_now == now

\* the browser sessions open on the application
Sessions == {1, 2}

\* what a session holds: idle, or the row its form was drawn from (editing),
\* or that row and the mapping its Save Changes handed to update_lead (saved)
Idle == [phase |-> "idle", id |-> 0, row |-> [f \in Fields |-> DefaultOf(f)], wrote |-> <<>>]
Editing(id, r) == [phase |-> "editing", id |-> id, row |-> r, wrote |-> <<>>]
Done(sess, updates) == [sess EXCEPT !.phase = "saved", !.wrote = updates]

Init ==
  /\ app = "none"
  /\ DB_PATH = "abs"
  /\ tableExists = FALSE
  /\ cols = {}
  /\ refUnique = FALSE
  /\ indexes = {}
  /\ rows = <<>>
  /\ seq = 0
  /\ now = 0
  /\ last = Call("none", 0, "none")
  /\ sessions = [s \in Sessions |-> Idle]

\* the clock advances; it never goes back
Tick ==
  /\ now < MaxTime
  /\ now' = now + 1
  /\ UNCHANGED <<app, DB_PATH, schema, rows, seq, last, sessions>>

\* --------------------------------------------------------- table mechanics
\* the row an INSERT of the column->value mapping vals makes
RowOf(vals) == [f \in Fields |-> IF f \in DOMAIN vals THEN vals[f] ELSE DefaultOf(f)]

\* the constraints of the table: NOT NULL on name and the two timestamps,
\* UNIQUE on ref_number where the table was created with it
Violates(rs, uniq, r, self) ==
  \/ r.name = NULL
  \/ r.created_at = NULLT
  \/ r.updated_at = NULLT
  \/ /\ uniq
     /\ r.ref_number # NULL
     /\ \E i \in DOMAIN rs : i # self /\ rs[i].ref_number = r.ref_number

\* a statement naming a column the table lacks is an OperationalError
NoSuchColumn(keys) == ~(keys \subseteq cols)

InsertFails(rs, vals) == NoSuchColumn(DOMAIN vals) \/ Violates(rs, refUnique, RowOf(vals), 0)

Put(rs, id, r) == [i \in DOMAIN rs \cup {id} |-> IF i = id THEN r ELSE rs[i]]
\* DELETE ... WHERE id<=?
Drop_upto(rs, id) == [i \in {j \in DOMAIN rs : j > id} |-> rs[i]]

\* DELETE FROM leads WHERE id=?
Drop(rs, id) == [i \in DOMAIN rs \ {id} |-> rs[i]]

\* ------------------------------------------------- crm_lead_manager.init_db
lm_init_db ==
  /\ app \in {"none", "lm"}
  /\ app' = "lm"
  /\ IF tableExists
     THEN UNCHANGED schema
     ELSE /\ tableExists' = TRUE
          /\ cols' = LmCols
          /\ refUnique' = FALSE
          /\ indexes' = {}
  /\ last' = Call("lm_init_db", 0, "ok")
  /\ UNCHANGED <<DB_PATH, rows, seq, now, sessions>>
\* ----------------------------------------------------- enhanced_crm.init_db

\* columns the evolver adds before it looks at ref_number
AddedFirst == {"place"} \cup address_fields \cup {"full_address"}

\* the format test looking for another prefix, so that no code passes it
NeedsRef_wrongprefix(r, hadRef) ==
  IF hadRef
  THEN ~Truthy(r.ref_number) \/ ~startswith(r.ref_number, <<"G","D","C","_">>)
  ELSE ~Truthy(r.ref_number)

\* rows whose reference the evolver rewrites: every row without one when the
\* column is new, and every row whose code is not in the GDC- format otherwise
NeedsRef(r, hadRef) ==
  IF hadRef
  THEN ~Truthy(r.ref_number) \/ ~startswith(r.ref_number, <<"G","D","C","-">>)
  ELSE ~Truthy(r.ref_number)

\* the rows after the reference pass, g[i] being the random draw for row i
Rereferenced(rs, hadRef, g, t) ==
  [i \in DOMAIN rs |->
     IF NeedsRef(rs[i], hadRef)
     THEN [rs[i] EXCEPT !.ref_number = _generate_ref(g[i], t)]
     ELSE rs[i]]

\* an UPDATE of the reference pass hits the UNIQUE constraint
RefPassCollides(rs, hadRef, g, t) ==
  LET rs1 == Rereferenced(rs, hadRef, g, t)
  IN  /\ refUnique
      /\ \E i, j \in DOMAIN rs :
           i # j /\ NeedsRef(rs[i], hadRef) /\ rs1[i].ref_number = rs1[j].ref_number

\* the backfill statement left out
Backfilled_skipped(rs, f, t) == rs

\* UPDATE leads SET f=now WHERE f IS NULL OR f='' for a timestamp column
\* the evolver has just added
Backfilled(rs, f, t) ==
  [i \in DOMAIN rs |-> IF rs[i][f] = NULLT THEN [rs[i] EXCEPT ![f] = t] ELSE rs[i]]

Migrated(rs, hadRef, g, t) ==
  LET r1 == Rereferenced(rs, hadRef, g, t)
      r2 == IF "created_at" \in cols THEN r1 ELSE Backfilled(r1, "created_at", t)
      r3 == IF "updated_at" \in cols THEN r2 ELSE Backfilled(r2, "updated_at", t)
  IN  r3

\* the columns the evolver adds when the table lacks them, in the order of
\* its ALTER TABLE statements
AlterOrder ==
  <<"place", "street_address", "city", "state", "zip_code", "country",
    "full_address", "ref_number", "created_at", "updated_at",
    "preferred_date", "preferred_time">>
IndexOrder == <<"idx_leads_ref", "idx_leads_status", "idx_leads_created">>

\* the evolver without its two scheduling columns
MigratedCols_noschedule == {AlterOrder[i] : i \in 1..(Len(AlterOrder) - 2)}

MigratedCols == {AlterOrder[i] : i \in 1..Len(AlterOrder)}

\* the evolver that takes company for an older name of place
EvolvedCols_rename(cs) == (cs \ {"company"}) \cup MigratedCols

\* the columns after the ALTER TABLE statements have run on a table with
\* the columns cs
EvolvedCols(cs) == cs \cup MigratedCols

\* a run of init_db in which no statement fails
init_db ==
  /\ app' = "en"
  /\ IF ~tableExists
     THEN \* CREATE TABLE leads and its three indexes
          /\ tableExists' = TRUE
          /\ cols' = EnCols
          /\ refUnique' = TRUE
          /\ indexes' = IndexNames
          /\ DB_PATH' = "abs"
          /\ last' = Started("created", last, {})
          /\ UNCHANGED rows
     ELSE \E g \in [DOMAIN rows -> RandRange] :
            LET hadRef == "ref_number" \in cols
            IN  IF RefPassCollides(rows, hadRef, g, _now)
                THEN \* IntegrityError: the open transaction is lost, the
                     \* ALTERs before it stay, and the fallback's CREATE
                     \* TABLE IF NOT EXISTS finds the table in place
                     /\ cols' = cols \cup AddedFirst
                     /\ DB_PATH' = "rel"
                     /\ last' = Started("fallback", last, AddedFirst \ cols)
                     /\ UNCHANGED <<tableExists, refUnique, indexes, rows>>
                ELSE /\ cols' = EvolvedCols(cols)
                     /\ rows' = Migrated(rows, hadRef, g, _now)
                     /\ indexes' = indexes \cup IndexNames
                     /\ DB_PATH' = "abs"
                     /\ last' = Started("migrated", last, MigratedCols \ cols)
                     /\ UNCHANGED <<tableExists, refUnique>>
  /\ UNCHANGED <<seq, now, sessions>>

\* the schema statements a run executes on a table with the columns cs, in
\* order: an ALTER TABLE for each missing column, then the three CREATE INDEX
\* IF NOT EXISTS
Statements(cs) == SelectSeq(AlterOrder, LAMBDA c : c \notin cs) \o IndexOrder

\* the position after which the run is inside a transaction: sqlite3 begins
\* one before the first UPDATE (of the reference pass when a row needs a
\* code, of a timestamp backfill when the column is new) and DDL before it
\* is committed at once
FirstUpdate(cs, rs) ==
  IF \E i \in DOMAIN rs : NeedsRef(rs[i], "ref_number" \in cs) THEN 8
  ELSE IF "created_at" \notin cs THEN 9
  ELSE IF "updated_at" \notin cs THEN 10
  ELSE 15

\* what stays of the first n statements when the next one raises: the
\* statements committed at once; the transaction is rolled back
Survive(cs, rs, n) ==
  LET pos(c) == CHOOSE k \in 1..15 : (AlterOrder \o IndexOrder)[k] = c
  IN  {c \in {Statements(cs)[j] : j \in 1..n} : pos(c) <= FirstUpdate(cs, rs)}

\* a run of init_db in which the schema statement after the first n raises
\* (database locked, disk full, read-only file): the error is reported,
\* DB_PATH is set to the relative path and CREATE TABLE IF NOT EXISTS is
\* tried there; when that works (recovers) init_db returns and the script
\* goes on, otherwise the exception is raised again and the script stopped
init_db_fault(n, recovers) ==
  /\ IF ~tableExists
     THEN /\ n <= Len(IndexOrder)
          /\ tableExists' = (n >= 1 \/ recovers)
          /\ cols' = IF n >= 1 \/ recovers THEN EnCols ELSE cols
          /\ refUnique' = (n >= 1 \/ recovers)
          /\ indexes' = {IndexOrder[j] : j \in 1..(IF n >= 1 THEN n - 1 ELSE 0)}
     ELSE /\ n < Len(Statements(cols))
          /\ cols' = cols \cup (Survive(cols, rows, n) \cap MigratedCols)
          /\ indexes' = indexes \cup (Survive(cols, rows, n) \cap IndexNames)
          /\ UNCHANGED <<tableExists, refUnique>>
  /\ DB_PATH' = "rel"
  /\ app' = IF recovers THEN "en" ELSE "halted"
  /\ last' = Started(IF recovers THEN "fallback" ELSE "aborted", last,
                     IF tableExists THEN cols' \ cols ELSE {})
  /\ UNCHANGED <<rows, seq, now, sessions>>
\* ------------------------------------------------------------ format_address
RECURSIVE JoinComma(_)
JoinComma(parts) ==
  IF parts = <<>> THEN <<>>
  ELSE IF Len(parts) = 1 THEN Head(parts)
  ELSE Head(parts) \o <<",", " ">> \o JoinComma(Tail(parts))

\* the components that are neither None nor empty, joined by ", "
format_address(street, city, state, zip_code, country) ==
  LET all == <<street, city, state, zip_code, country>>
      address_parts == SelectSeq(all, Truthy)
  IN  JoinComma(address_parts)

\* ------------------------------------------------ crm_lead_manager: add_lead
\* the values add_lead binds: data.get(k) is None for a missing key
lm_add_vals(data, t) ==
  [f \in LmCols \ {"id"} |->
     IF f = "status" THEN Get(data, "status", STATUSES[1])
     ELSE IF f = "value" THEN Get(data, "value", 0)
     ELSE IF f \in TimeFields THEN t
     ELSE Get(data, f, NULL)]

\* x.strip() or None
StripOrNone(x) == IF strip(x) = EMPTY THEN NULL ELSE strip(x)

\* the sidebar form: a blank name is refused, everything else is stripped
\* and handed to add_lead, whose database errors are not caught
lm_add_lead_form(f) ==
  /\ app = "lm"
  /\ IF strip(f.name) = EMPTY
     THEN /\ last' = Call("lm_add_lead_form", 0, "name_required")
          /\ UNCHANGED <<rows, seq>>
     ELSE LET data == [name |-> strip(f.name), email |-> StripOrNone(f.email),
                       phone |-> StripOrNone(f.phone), company |-> StripOrNone(f.company),
                       source |-> f.source, owner |-> StripOrNone(f.owner),
                       status |-> f.status, value |-> f.value,
                       tags |-> StripOrNone(f.tags), notes |-> StripOrNone(f.notes)]
              vals == lm_add_vals(data, _now)
          IN  /\ seq < MaxLeads
              /\ IF InsertFails(rows, vals)
                 THEN /\ last' = Call("lm_add_lead_form", 0, "raise")
                      /\ UNCHANGED <<rows, seq>>
                 ELSE /\ rows' = Put(rows, seq + 1, RowOf(vals))
                      /\ seq' = seq + 1
                      /\ last' = Call("lm_add_lead_form", seq + 1, "ok")
  /\ UNCHANGED <<app, DB_PATH, schema, now, sessions>>

\* add_lead called with the mapping data: no validation of its own, and an
\* INSERT the table refuses raises out of it
lm_add_lead(data) ==
  /\ app = "lm"
  /\ seq < MaxLeads
  /\ LET vals == lm_add_vals(data, _now)
     IN  IF InsertFails(rows, vals)
         THEN /\ last' = Call("lm_add_lead", 0, "raise")
              /\ UNCHANGED <<rows, seq>>
         ELSE /\ rows' = Put(rows, seq + 1, RowOf(vals))
              /\ seq' = seq + 1
              /\ last' = Call("lm_add_lead", seq + 1, "ok")
  /\ UNCHANGED <<app, DB_PATH, schema, now, sessions>>

\* ---------------------------------------------------- enhanced_crm: add_lead
\* data.get(k, "") for the text columns: the default only for a missing key
add_vals(data, ref_number, name, full_address, t) ==
  [f \in EnCols \ {"id"} |->
     IF f = "ref_number" THEN ref_number
     ELSE IF f = "name" THEN name
     ELSE IF f = "full_address" THEN full_address
     ELSE IF f = "status" THEN Get(data, "status", STATUSES[1])
     ELSE IF f = "value" THEN Get(data, "value", 0)
     ELSE IF f \in TimeFields THEN t
     ELSE Get(data, f, EMPTY)]

\* what add_lead(data) does to the table and returns, n being the draw of
\* _generate_ref: [ok, rows, seq]
add_lead_result(rs, sq, data, n, t) ==
  LET full_address == format_address(Get(data, "street_address", NULL),
                                     Get(data, "city", NULL),
                                     Get(data, "state", NULL),
                                     Get(data, "zip_code", NULL),
                                     Get(data, "country", NULL))
      given == Get(data, "ref_number", NULL)
      ref_number == IF Truthy(given) THEN given ELSE _generate_ref(n, t)
      raw == Get(data, "name", EMPTY)
      name == IF raw = NULL THEN NULL ELSE strip(raw)
      vals == add_vals(data, ref_number, name, full_address, t)
  IN  IF ~Truthy(name) \/ InsertFails(rs, vals)
      THEN [ok |-> FALSE, rows |-> rs, seq |-> sq]
      ELSE [ok |-> TRUE, rows |-> Put(rs, sq + 1, RowOf(vals)), seq |-> sq + 1]

\* add_lead called with the mapping data
add_lead(data) ==
  /\ app = "en"
  /\ seq < MaxLeads
  /\ \E n \in RandRange :
       LET res == add_lead_result(rows, seq, data, n, _now)
       IN  /\ rows' = res.rows
           /\ seq' = res.seq
           /\ last' = Call("add_lead", IF res.ok THEN res.seq ELSE 0,
                            IF res.ok THEN "True" ELSE "False")
  /\ UNCHANGED <<app, DB_PATH, schema, now, sessions>>

\* the sidebar form: a blank name is refused, a reference is generated and
\* the raw widget values are handed to add_lead
add_lead_form(f) ==
  /\ app = "en"
  /\ IF strip(f.name) = EMPTY
     THEN /\ last' = Call("add_lead_form", 0, "name_required")
          /\ UNCHANGED <<rows, seq>>
     ELSE /\ seq < MaxLeads
          /\ \E n \in RandRange :
               LET lead_data ==
                     [k \in DOMAIN f \cup {"ref_number"} |->
                        IF k = "ref_number" THEN _generate_ref(n, _now)
                        ELSE IF k \in {"preferred_date", "preferred_time"}
                             THEN (IF Truthy(f[k]) THEN f[k] ELSE NULL)
                             ELSE f[k]]
                   res == add_lead_result(rows, seq, lead_data, n, _now)
               IN  /\ rows' = res.rows
                   /\ seq' = res.seq
                   /\ last' = Call("add_lead_form", IF res.ok THEN res.seq ELSE 0,
                                    IF res.ok THEN "True" ELSE "False")
  /\ UNCHANGED <<app, DB_PATH, schema, now, sessions>>
\* ------------------------------------------------- update_lead, delete_lead
\* the UPDATE with a version check on the timestamp: a row stamped in this
\* second or later is not written
ApplyUpdate_versioned(rs, lead_id, updates, t) ==
  IF NoSuchColumn(DOMAIN updates)
  THEN [ok |-> FALSE, rows |-> rs]
  ELSE IF lead_id \notin DOMAIN rs
  THEN [ok |-> TRUE, rows |-> rs]
  ELSE IF rs[lead_id].updated_at >= t
  THEN [ok |-> FALSE, rows |-> rs]
  ELSE LET r == [f \in Fields |->
                   IF f = "updated_at" THEN t
                   ELSE IF f \in DOMAIN updates THEN updates[f]
                   ELSE rs[lead_id][f]]
       IN  [ok |-> TRUE, rows |-> Put(rs, lead_id, r)]

\* UPDATE leads SET <updates>, updated_at=t WHERE id=lead_id: [ok, rows]
ApplyUpdate(rs, lead_id, updates, t) ==
  IF NoSuchColumn(DOMAIN updates)
  THEN [ok |-> FALSE, rows |-> rs]
  ELSE IF lead_id \notin DOMAIN rs
  THEN [ok |-> TRUE, rows |-> rs]
  ELSE LET r == [f \in Fields |->
                   IF f = "updated_at" THEN t
                   ELSE IF f \in DOMAIN updates THEN updates[f]
                   ELSE rs[lead_id][f]]
       IN  IF Violates(rs, refUnique, r, lead_id)
           THEN [ok |-> FALSE, rows |-> rs]
           ELSE [ok |-> TRUE, rows |-> Put(rs, lead_id, r)]

\* crm_lead_manager.update_lead: nothing for an empty mapping, else the UPDATE
lm_update_result(rs, lead_id, updates, t) ==
  IF DOMAIN updates = {}
  THEN [ok |-> TRUE, rows |-> rs]
  ELSE ApplyUpdate(rs, lead_id, updates, t)

\* get_lead_by_id: the row as a mapping; None when no row has the id, which
\* the caller tests as lead_id \in DOMAIN rs
get_lead_by_id(rs, lead_id) == rs[lead_id]

\* when an address component is updated and the lead exists, full_address
\* is recomputed from the updated and the stored components
WithFullAddress(rs, lead_id, updates) ==
  LET current_lead == get_lead_by_id(rs, lead_id)
      part(k) == Get(updates, k, current_lead[k])
  IN  IF DOMAIN updates \cap address_fields # {} /\ lead_id \in DOMAIN rs
      THEN [k \in DOMAIN updates \cup {"full_address"} |->
              IF k = "full_address"
              THEN format_address(part("street_address"), part("city"),
                                  part("state"), part("zip_code"), part("country"))
              ELSE updates[k]]
      ELSE updates

\* enhanced_crm.update_lead
update_result(rs, lead_id, updates, t) ==
  IF DOMAIN updates = {}
  THEN [ok |-> TRUE, rows |-> rs]
  ELSE ApplyUpdate(rs, lead_id, WithFullAddress(rs, lead_id, updates), t)

update_lead(lead_id, updates) ==
  /\ app = "en"
  /\ LET res == update_result(rows, lead_id, updates, _now)
     IN  /\ rows' = res.rows
         /\ last' = CallK("update_lead", lead_id,
                           IF res.ok THEN "ok" ELSE "error", DOMAIN updates, 0)
  /\ UNCHANGED <<app, DB_PATH, schema, seq, now, sessions>>

\* update_lead run by two script threads: the call of session s reads the
\* lead with get_lead_by_id on a connection of its own and builds the
\* mapping it will bind, full_address included ...
update_lead_read(s, lead_id, updates) ==
  /\ app = "en"
  /\ sessions[s].phase # "updating"
  /\ DOMAIN updates \cap address_fields # {}
  /\ lead_id \in DOMAIN rows
  /\ sessions' = [sessions EXCEPT
                    ![s] = [phase |-> "updating", id |-> lead_id,
                            row |-> get_lead_by_id(rows, lead_id),
                            wrote |-> WithFullAddress(rows, lead_id, updates)]]
  /\ UNCHANGED <<app, DB_PATH, schema, rows, seq, now, last>>

\* ... and later runs its UPDATE on a second connection, against the table
\* as it is then
update_lead_write(s) ==
  /\ app = "en"
  /\ sessions[s].phase = "updating"
  /\ LET lead_id == sessions[s].id
         res == ApplyUpdate(rows, lead_id, sessions[s].wrote, _now)
     IN  /\ rows' = res.rows
         /\ last' = Saved("update_lead", lead_id, IF res.ok THEN "ok" ELSE "error",
                           DOMAIN sessions[s].wrote, s)
         /\ sessions' = [sessions EXCEPT ![s] = Done(@, sessions[s].wrote)]
  /\ UNCHANGED <<app, DB_PATH, schema, seq, now>>

\* the deletion on a table whose id is a plain rowid: the next id is one
\* more than the largest id left
delete_lead_rowid(lead_id) ==
  /\ app = "en"
  /\ rows' = IF lead_id \in DOMAIN rows THEN Drop(rows, lead_id) ELSE rows
  /\ seq' = IF DOMAIN rows' = {} THEN 0
            ELSE CHOOSE i \in DOMAIN rows' : \A j \in DOMAIN rows' : j <= i
  /\ last' = Call("delete_lead", lead_id, "ok")
  /\ UNCHANGED <<app, DB_PATH, schema, now, sessions>>

\* DELETE FROM leads WHERE id=lead_id; the id is not given out again
delete_lead(lead_id) ==
  /\ app = "en"
  /\ rows' = IF lead_id \in DOMAIN rows THEN Drop(rows, lead_id) ELSE rows
  /\ last' = Call("delete_lead", lead_id, "ok")
  /\ UNCHANGED <<app, DB_PATH, schema, seq, now, sessions>>

\* ------------------------------------------ enhanced_crm: the edit form
OrEmpty(v) == IF Truthy(v) THEN v ELSE EMPTY

\* what the widgets of the edit form show for the stored row
FormDefaults(r) ==
  [name |-> r.name,
   email |-> OrEmpty(r.email),
   phone |-> OrEmpty(r.phone),
   place |-> OrEmpty(r.place),
   street_address |-> OrEmpty(r.street_address),
   city |-> OrEmpty(r.city),
   state |-> OrEmpty(r.state),
   zip_code |-> OrEmpty(r.zip_code),
   country |-> OrEmpty(r.country),
   source |-> IF InSeq(r.source, SOURCES) THEN r.source ELSE SOURCES[1],
   owner |-> OrEmpty(r.owner),
   status |-> r.status,
   value |-> r.value,
   tags |-> OrEmpty(r.tags),
   notes |-> OrEmpty(r.notes),
   preferred_date |-> IF r.preferred_date = <<"2","0","2","6","-","0","1","-","0","5">>
                      THEN r.preferred_date ELSE NULL,
   preferred_time |-> IF r.preferred_time = <<"0","9",":","3","0",":","0","0">>
                      THEN r.preferred_time ELSE NULL]

\* the form can be drawn for the row: STATUSES.index and min_value=0.0
Editable(r) == InSeq(r.status, STATUSES) /\ r.value >= 0

\* Save Changes: every widget value, changed by the user (edits) or not, is
\* written by one update_lead
save_changes(lead_id, edits) ==
  /\ app = "en"
  /\ lead_id \in DOMAIN rows
  /\ Editable(rows[lead_id])
  /\ LET shown == FormDefaults(rows[lead_id])
         updates == [k \in DOMAIN shown |-> Get(edits, k, shown[k])]
         res == update_result(rows, lead_id, updates, _now)
     IN  /\ rows' = res.rows
         /\ last' = CallK("save_changes", lead_id,
                           IF res.ok THEN "ok" ELSE "error", DOMAIN edits, 0)
  /\ UNCHANGED <<app, DB_PATH, schema, seq, now, sessions>>

\* the Edit button of session s: the script run draws the form of lead_id
\* from the row it has just fetched
edit_lead(s, lead_id) ==
  /\ app = "en"
  /\ lead_id \in DOMAIN rows
  /\ Editable(rows[lead_id])
  /\ sessions' = [sessions EXCEPT ![s] = Editing(lead_id, rows[lead_id])]
  /\ UNCHANGED <<app, DB_PATH, schema, rows, seq, now, last>>

\* Save Changes of the form session s has open: the widget values, those the
\* form was drawn with and those the user changed (edits), are written by one
\* update_lead against the table as it is now, and the form is closed
save_edit(s, edits) ==
  /\ app = "en"
  /\ sessions[s].phase = "editing"
  /\ LET lead_id == sessions[s].id
         shown == FormDefaults(sessions[s].row)
         updates == [k \in DOMAIN shown |-> Get(edits, k, shown[k])]
         res == update_result(rows, lead_id, updates, _now)
     IN  /\ rows' = res.rows
         /\ last' = Saved("save_edit", lead_id, IF res.ok THEN "ok" ELSE "error",
                           DOMAIN edits, s)
         /\ sessions' = [sessions EXCEPT
                           ![s] = Done(@, WithFullAddress(rows, lead_id, updates))]
  /\ UNCHANGED <<app, DB_PATH, schema, seq, now>>

\* ---------------------------------- crm_lead_manager: the editable grid

\* Save Changes of the grid: the cells of row eid that differ from the stored
\* ones are written by update_lead, then the row did removed from the grid
\* is deleted (0 stands for no such row); an update that raises ends the
\* handler before the deletion
lm_save_changes(eid, cells, did) ==
  /\ app = "lm"
  /\ eid \in DOMAIN rows \cup {0}
  /\ did \in (DOMAIN rows \ {eid}) \cup {0}
  /\ eid # 0 \/ did # 0
  /\ LET original == rows[eid]
         changed == IF eid = 0 THEN {}
                    ELSE {c \in DOMAIN cells : cells[c] # original[c]}
         updates == [c \in changed |-> cells[c]]
         res == lm_update_result(rows, eid, updates, _now)
     IN  IF ~res.ok
         THEN /\ rows' = rows
              /\ last' = CallK("lm_save_changes", eid, "raise", changed, 0)
         ELSE /\ rows' = IF did = 0 THEN res.rows ELSE Drop(res.rows, did)
              /\ last' = CallK("lm_save_changes", eid, "ok", changed, did)
  /\ UNCHANGED <<app, DB_PATH, schema, seq, now, sessions>>
\* the grid of session s is drawn from the frame the script run fetched; the
\* user works on the row eid
lm_show_grid(s, eid) ==
  /\ app = "lm"
  /\ eid \in DOMAIN rows
  /\ sessions' = [sessions EXCEPT ![s] = Editing(eid, rows[eid])]
  /\ UNCHANGED <<app, DB_PATH, schema, rows, seq, now, last>>

\* Save Changes of the grid of session s: the cells that differ from the
\* frame the grid was drawn from are written by update_lead against the
\* table as it is now
lm_save_grid(s, cells) ==
  /\ app = "lm"
  /\ sessions[s].phase = "editing"
  /\ LET eid == sessions[s].id
         original == sessions[s].row
         changed == {c \in DOMAIN cells : cells[c] # original[c]}
         updates == [c \in changed |-> cells[c]]
         res == lm_update_result(rows, eid, updates, _now)
     IN  /\ rows' = res.rows
         /\ last' = Saved("lm_save_grid", eid, IF res.ok THEN "ok" ELSE "raise", changed, s)
         /\ sessions' = [sessions EXCEPT ![s] = Done(@, updates)]
  /\ UNCHANGED <<app, DB_PATH, schema, seq, now>>
\* -------------------------------------------------------------- CSV files
\* a file read by pd.read_csv: its columns and its rows, each a mapping from
\* the columns to cells; a blank cell (NaN) is NULL in a text column, NULLT
\* in a timestamp column and NULLV in the value column; CsvBad is a value
\* cell that is not a number
NULLV == -1000
CsvBad == -1001

Range(sq) == {sq[i] : i \in 1..Len(sq)}

\* INSERT the mappings of valsSeq one after the other inside one
\* transaction: [ok, rows, seq], the table untouched when one insert fails
RECURSIVE InsertAll(_, _, _)
InsertAll(rs, sq, valsSeq) ==
  IF valsSeq = <<>> THEN [ok |-> TRUE, rows |-> rs, seq |-> sq]
  ELSE IF InsertFails(rs, Head(valsSeq)) THEN [ok |-> FALSE, rows |-> rs, seq |-> sq]
  ELSE InsertAll(Put(rs, sq + 1, RowOf(Head(valsSeq))), sq + 1, Tail(valsSeq))

\* ------------------------------------------- crm_lead_manager.import_csv
\* the values import_csv binds for one row of the file; a NaN is bound as
\* NULL, and float(nan or 0) is the NaN itself
lm_import_vals(columns, row, t) ==
  [f \in LmCols \ {"id"} |->
     IF f = "status"
     THEN IF "status" \in columns /\ InSeq(row["status"], STATUSES)
          THEN row["status"] ELSE STATUSES[1]
     ELSE IF f = "value"
     THEN IF "value" \in columns THEN row["value"] ELSE 0
     ELSE IF f \in TimeFields THEN t
     ELSE IF f \in columns THEN row[f] ELSE NULL]

\* a check that finds no column missing
missing_none(file) == {}

\* required - set(df.columns)
missing(file) == {"name"} \ file.columns

\* the rows before the first one whose value float() refuses
BeforeBadValue(file) ==
  LET bad == {i \in 1..Len(file.rows) :
                "value" \in file.columns /\ file.rows[i]["value"] = CsvBad}
  IN  IF bad = {} THEN file.rows
      ELSE SubSeq(file.rows, 1, (CHOOSE i \in bad : \A j \in bad : i <= j) - 1)

\* a connection that commits each INSERT as it is executed
Closed_autocommit(rs, sq, res) == res

\* closing(conn) after the loop: the result of the transaction when it was
\* committed, the table as it was (rs, sq) when an exception left the block
\* before conn.commit()
Closed(rs, sq, res) == IF res.ok THEN res ELSE [ok |-> FALSE, rows |-> rs, seq |-> sq]

\* the upload handler: import_csv raises on a missing name column and on the
\* first row that cannot be inserted, and nothing is committed before the end;
\* a failed import records the columns found missing (keys) and the number
\* of rows the transaction held when it was left (count)
lm_import_csv(file) ==
  /\ app = "lm"
  /\ seq + Len(file.rows) <= MaxLeads
  /\ IF missing(file) # {}
     THEN /\ last' = CallK("lm_import_csv", 0, "missing_name", missing(file), 0)
          /\ UNCHANGED <<rows, seq>>
     ELSE LET good == BeforeBadValue(file)
              valsSeq == [i \in 1..Len(good) |->
                            lm_import_vals(file.columns, good[i], _now)]
              res == InsertAll(rows, seq, valsSeq)
              done == [res EXCEPT !.ok = res.ok /\ Len(good) = Len(file.rows)]
              out == Closed(rows, seq, done)
          IN  /\ rows' = out.rows
              /\ seq' = out.seq
              /\ last' = IF out.ok
                         THEN Imported("lm_import_csv", Len(file.rows))
                         ELSE [Call("lm_import_csv", 0, "raise")
                                 EXCEPT !.count = done.seq - seq]
  /\ UNCHANGED <<app, DB_PATH, schema, now, sessions>>
\* ------------------------------------------- enhanced_crm: the CSV import
\* new_df.rename(columns={old: new}) when old is a column and new is not
Renamed(file, old, new) ==
  IF old \in file.columns /\ new \notin file.columns
  THEN [columns |-> (file.columns \ {old}) \cup {new},
        rows |-> [i \in 1..Len(file.rows) |->
                    [c \in (file.columns \ {old}) \cup {new} |->
                       IF c = new THEN file.rows[i][old] ELSE file.rows[i][c]]]]
  ELSE file

\* new_df.drop(columns=[c]) when c is a column
Dropped(file, c) ==
  [columns |-> file.columns \ {c},
   rows |-> [i \in 1..Len(file.rows) |-> [k \in file.columns \ {c} |-> file.rows[i][k]]]]

\* company, then the address synonyms in the order of column_mapping, then id
Mapped(file) ==
  LET f1 == Renamed(file, "company", "place")
      f2 == Renamed(f1, "address", "street_address")
      f3 == Renamed(f2, "street", "street_address")
      f4 == Renamed(f3, "postal_code", "zip_code")
      f5 == Renamed(f4, "postcode", "zip_code")
      f6 == Renamed(f5, "zip", "zip_code")
  IN  Dropped(f6, "id")

required_columns ==
  {"street_address", "city", "state", "zip_code", "country", "place", "email",
   "phone", "source", "owner", "status", "tags", "notes", "preferred_date",
   "preferred_time"}

\* the frame cannot be built: pd.to_numeric of the default 0 has no fillna,
\* and format_address joins a NaN cell of an address column
import_raises(file) ==
  \/ "value" \notin file.columns
  \/ /\ "full_address" \notin file.columns
     /\ \E i \in 1..Len(file.rows) :
          \E c \in address_fields \cap file.columns : file.rows[i][c] = NULL

\* the row of the frame handed to to_sql for row i of the mapped file, g[i]
\* being the draw of its generated reference
import_vals(file, i, g, t) ==
  LET row == file.rows[i]
      cell(c) == IF c \in file.columns THEN row[c] ELSE NULL
      out == file.columns \cup required_columns
               \cup {"ref_number", "created_at", "updated_at", "value", "full_address"}
  IN  [c \in out |->
         IF c = "ref_number" /\ c \notin file.columns THEN _generate_ref(g[i], t)
         ELSE IF c \in TimeFields /\ c \notin file.columns THEN t
         ELSE IF c = "value"
              THEN IF row[c] \in {NULLV, CsvBad} THEN 0 ELSE row[c]
         ELSE IF c = "full_address" /\ c \notin file.columns
              THEN format_address(cell("street_address"), cell("city"), cell("state"),
                                  cell("zip_code"), cell("country"))
         ELSE IF c = "status" THEN IF cell(c) = NULL THEN STATUSES[1] ELSE cell(c)
         ELSE cell(c)]

\* the Import Data button: the frame is completed and appended by to_sql in
\* one transaction; any error is reported and nothing is written
import_data(upload) ==
  /\ app = "en"
  /\ seq + Len(upload.rows) <= MaxLeads
  /\ LET file == Mapped(upload)
     IN  IF import_raises(file)
         THEN /\ last' = Call("import_data", 0, "failed")
              /\ UNCHANGED <<rows, seq>>
         ELSE \E g \in [1..Len(file.rows) -> RandRange] :
                LET valsSeq == [i \in 1..Len(file.rows) |-> import_vals(file, i, g, _now)]
                    res == InsertAll(rows, seq, valsSeq)
                IN  IF res.ok
                    THEN /\ rows' = res.rows
                         /\ seq' = res.seq
                         /\ last' = Imported("import_data", Len(file.rows))
                    ELSE /\ last' = Call("import_data", 0, "failed")
                         /\ UNCHANGED <<rows, seq>>
  /\ UNCHANGED <<app, DB_PATH, schema, now, sessions>>
\* ------------------------------------------------------------- fetch_leads
\* the characters of the model in ASCII order, for the BINARY collation
Ascii ==
  <<" ", "%", ",", "-">> \o Digits \o <<":">> \o Upper \o <<"_">> \o Lower

Rank(c) == CHOOSE i \in 1..Len(Ascii) : Ascii[i] = c

RECURSIVE TextLeq(_, _)
TextLeq(a, b) ==
  IF a = <<>> THEN TRUE
  ELSE IF b = <<>> THEN FALSE
  ELSE IF Head(a) = Head(b) THEN TextLeq(Tail(a), Tail(b))
  ELSE Rank(Head(a)) < Rank(Head(b))

\* x <= y in the order ORDER BY uses on column c; NULL sorts first
ColLeq(x, y, c) ==
  IF c \in TimeFields \cup {"value"} THEN x <= y
  ELSE IF x = NULL THEN TRUE
  ELSE IF y = NULL THEN FALSE
  ELSE TextLeq(x, y)

\* an order_by of None, kept apart from every text a caller can pass
OrderNone == "<None>"
DefaultOrder == "created_at DESC"

order_options ==
  {"created_at DESC", "created_at ASC", "value DESC", "value ASC", "name ASC", "name DESC"}

lm_order_options == order_options \cup {"updated_at DESC", "updated_at ASC"}

\* the ORDER BY terms of the model that SQLite accepts: a column of the table
\* and a direction
ParsedOrder(text) ==
  CASE text = "created_at DESC" -> <<"created_at", "DESC">>
    [] text = "created_at ASC" -> <<"created_at", "ASC">>
    [] text = "updated_at DESC" -> <<"updated_at", "DESC">>
    [] text = "updated_at ASC" -> <<"updated_at", "ASC">>
    [] text = "value DESC" -> <<"value", "DESC">>
    [] text = "value ASC" -> <<"value", "ASC">>
    [] text = "name ASC" -> <<"name", "ASC">>
    [] text = "name DESC" -> <<"name", "DESC">>
    [] text = "status ASC" -> <<"status", "ASC">>
    [] OTHER -> <<>>

\* filters.get(k) is truthy
Has(filters, k) == k \in DOMAIN filters /\ Truthy(filters[k])

lm_search_cols == {"name", "email", "company", "owner", "tags", "notes"}
search_cols ==
  {"name", "email", "place", "owner", "tags", "notes", "ref_number", "full_address"}

\* the WHERE clause built from the filters holds of row r
Matches(r, filters, searched) ==
  /\ Has(filters, "q") => \E c \in searched : Like(r[c], Wrap(filters["q"]))
  /\ Has(filters, "status") => r.status = filters["status"]
  /\ Has(filters, "owner") => Like(r.owner, Wrap(filters["owner"]))
  /\ Has(filters, "source") => r.source = filters["source"]

\* the clauses joined by AND into the WHERE of the query text; like is the
\* parenthesised LIKE clause of the program
Clauses(filters, like, eq) ==
  (IF Has(filters, "q") THEN <<like>> ELSE <<>>)
  \o (IF Has(filters, "status") THEN <<"status" \o eq \o "?">> ELSE <<>>)
  \o (IF Has(filters, "owner") THEN <<"owner LIKE ?">> ELSE <<>>)
  \o (IF Has(filters, "source") THEN <<"source" \o eq \o "?">> ELSE <<>>)

lm_like ==
  "(name LIKE ? OR email LIKE ? OR company LIKE ? OR owner LIKE ? OR tags LIKE ? OR notes LIKE ?)"
en_like ==
  "(name LIKE ? OR email LIKE ? OR place LIKE ? OR owner LIKE ? OR tags LIKE ? OR notes LIKE ? OR ref_number LIKE ? OR full_address LIKE ?)"

\* ORDER BY {order}: the text placed into the query
lm_order(filters) ==
  IF "order_by" \in DOMAIN filters /\ filters["order_by"] \notin {OrderNone, ""}
  THEN filters["order_by"] ELSE DefaultOrder

\* f"{order}": None lands in the query text as "None"
order_of(filters) ==
  IF "order_by" \in DOMAIN filters
  THEN (IF filters["order_by"] = OrderNone THEN "None" ELSE filters["order_by"])
  ELSE DefaultOrder

\* the sequences of ids SELECT can return: the matching rows, sorted by the
\* ORDER BY term, rows that tie in any order
Sorted(rs, out, term) ==
  \A i, j \in 1..Len(out) :
    i < j => IF term[2] = "ASC"
             THEN ColLeq(rs[out[i]][term[1]], rs[out[j]][term[1]], term[1])
             ELSE ColLeq(rs[out[j]][term[1]], rs[out[i]][term[1]], term[1])

Selected(rs, match, term) ==
  LET n == Cardinality(match)
  IN  {out \in [1..n -> match] :
         /\ \A i, j \in 1..n : i # j => out[i] # out[j]
         /\ Sorted(rs, out, term)}

\* the query fails: the ORDER BY text does not parse, or a searched column
\* is missing from the table
QueryFails(order, filters, searched) ==
  \/ ParsedOrder(order) = <<>>
  \/ Has(filters, "q") /\ NoSuchColumn(searched)

\* crm_lead_manager.fetch_leads: a failing query raises
lm_fetch_leads(filters) ==
  /\ app = "lm"
  /\ LET order == lm_order(filters)
         match == {i \in DOMAIN rows : Matches(rows[i], filters, lm_search_cols)}
     IN  IF QueryFails(order, filters, lm_search_cols)
         THEN last' = Fetched("lm_fetch_leads", "raise", filters, <<>>)
         ELSE \E out \in Selected(rows, match, ParsedOrder(order)) :
                last' = Fetched("lm_fetch_leads", "ok", filters, out)
  /\ UNCHANGED <<app, DB_PATH, schema, rows, seq, now, sessions>>

\* enhanced_crm.fetch_leads: a failing query is reported and an empty frame
\* returned
fetch_leads(filters) ==
  /\ app = "en"
  /\ LET order == order_of(filters)
         match == {i \in DOMAIN rows : Matches(rows[i], filters, search_cols)}
     IN  IF QueryFails(order, filters, search_cols)
         THEN last' = Fetched("fetch_leads", "error", filters, <<>>)
         ELSE \E out \in Selected(rows, match, ParsedOrder(order)) :
                last' = Fetched("fetch_leads", "ok", filters, out)
  /\ UNCHANGED <<app, DB_PATH, schema, rows, seq, now, sessions>>
\* ------------------------------------------------------------------ inputs
Al == <<"A","l">>
Blank == <<" ">>
StatusWon == STATUSES[5]
ForcedRef == <<"X","1">>

\* the widgets of the sidebar form of crm_lead_manager
LmForm(name, owner, notes, status) ==
  [name |-> name, email |-> EMPTY, phone |-> EMPTY, company |-> EMPTY,
   source |-> SOURCES[7], owner |-> owner, status |-> status, value |-> 0,
   tags |-> EMPTY, notes |-> notes]

\* the widgets of the sidebar form of enhanced_crm
EnForm(name, owner, notes, status) ==
  [name |-> name, email |-> EMPTY, phone |-> EMPTY, place |-> EMPTY,
   street_address |-> EMPTY, city |-> EMPTY, state |-> EMPTY, zip_code |-> EMPTY,
   country |-> EMPTY, source |-> SOURCES[1], owner |-> owner, status |-> status,
   value |-> 0, tags |-> EMPTY, notes |-> notes,
   preferred_date |-> NULL, preferred_time |-> NULL]

LmForms == {LmForm(n, EMPTY, EMPTY, STATUSES[1]) : n \in {Al, Blank}}
EnForms == {EnForm(n, EMPTY, EMPTY, STATUSES[1]) : n \in {Al, Blank}}

\* mappings add_lead is called with directly: no reference, a forced one,
\* a blank name
AddData ==
  { [name |-> Al],
    [name |-> Al, ref_number |-> ForcedRef],
    [name |-> Blank] }

\* mappings crm_lead_manager's add_lead is called with directly
LmAddData == { [name |-> Al], [name |-> Blank], [name |-> EMPTY], [name |-> NULL] }

StatusOnly == {[status |-> StatusWon]}
Edits == StatusOnly \cup {[name |-> EMPTY]}

OneRow(columns, row) == [columns |-> columns, rows |-> <<row>>]

LmFiles ==
  { OneRow({"name"}, [name |-> Al]),
    OneRow({"name"}, [name |-> Blank]),
    OneRow({"email"}, [email |-> NULL]) }

\* uploads: a plain one, one with a reference column, one that brings its
\* own timestamps, one with a blank name, one with the name column alone
EnFiles ==
  { OneRow({"name", "value"}, [name |-> Al, value |-> 0]),
    OneRow({"name"}, [name |-> Al]),
    OneRow({"name", "value", "ref_number"},
           [name |-> Al, value |-> 0, ref_number |-> ForcedRef]),
    OneRow({"name", "value", "created_at", "updated_at"},
           [name |-> Al, value |-> 0, created_at |-> 0, updated_at |-> MaxTime]),
    OneRow({"name", "value"}, [name |-> Blank, value |-> 0]) }

\* ---------------------------------------------------------- specification
Next ==
  \/ Tick
  \/ lm_init_db
  \/ init_db
  \/ \E f \in LmForms : lm_add_lead_form(f)
  \/ \E f \in EnForms : add_lead_form(f)
  \/ \E data \in AddData : add_lead(data)
  \/ \E data \in LmAddData : lm_add_lead(data)
  \/ \E id \in Ids, u \in StatusOnly : update_lead(id, u)
  \/ \E id \in Ids, e \in Edits : save_changes(id, e)
  \/ \E eid \in Ids \cup {0}, did \in Ids \cup {0}, c \in Edits : lm_save_changes(eid, c, did)
  \/ \E id \in Ids : delete_lead(id)
  \/ \E file \in LmFiles : lm_import_csv(file)
  \/ \E file \in EnFiles : import_data(file)

Spec == Init /\ [][Next]_vars

\* ------------------------------------------ specification of the evolver
\* the table is built by the two programs' inserts and by uploads with a
\* reference column, and the evolver runs at every start of enhanced_crm;
\* the uploads: a blank reference cell, a code of another format
TableFiles ==
  { OneRow({"name", "value", "ref_number"},
           [name |-> Al, value |-> 0, ref_number |-> NULL]),
    OneRow({"name", "value", "ref_number"},
           [name |-> Al, value |-> 0, ref_number |-> ForcedRef]) }

NextEvolve ==
  \/ Tick
  \/ lm_init_db
  \/ init_db
  \/ lm_add_lead_form(LmForm(Al, EMPTY, EMPTY, STATUSES[1]))
  \/ \E data \in AddData : add_lead(data)
  \/ \E file \in TableFiles : import_data(file)

SpecEvolve == Init /\ [][NextEvolve]_vars

\* ----------------------------------------------- specification of deletion
\* leads are added by either program and deleted by delete_lead or by the
\* Save Changes handler of crm_lead_manager
NextDelete ==
  \/ Tick
  \/ lm_init_db
  \/ init_db
  \/ lm_add_lead_form(LmForm(Al, EMPTY, EMPTY, STATUSES[1]))
  \/ \E data \in AddData : add_lead(data)
  \/ \E eid \in Ids \cup {0}, did \in Ids \cup {0}, c \in StatusOnly : lm_save_changes(eid, c, did)
  \/ \E id \in Ids : delete_lead(id)

SpecDelete == Init /\ [][NextDelete]_vars

\* ------------------------------------------- specification of the queries
Ab == <<"a","b">>
CUnder == <<"c","_">>

\* one lead named "ab" without an owner, one named "c_" owned by "Al"
FetchLmForms == {LmForm(Ab, EMPTY, EMPTY, STATUSES[1]), LmForm(CUnder, Al, EMPTY, STATUSES[1])}
FetchEnForms == {EnForm(Ab, EMPTY, EMPTY, STATUSES[1]), EnForm(CUnder, Al, EMPTY, STATUSES[1])}

Terms == { <<"a">>, <<"b">>, <<"_">> }

\* no filters argument or an empty mapping, and mappings whose every field
\* is None or empty
NoFilterMaps ==
  { <<>>,
    [q |-> NULL, status |-> NULL, owner |-> NULL, source |-> NULL, order_by |-> OrderNone],
    [q |-> EMPTY, owner |-> EMPTY, order_by |-> ""] }

\* what the list view passes: every key, the order from order_options
ViewMaps ==
  { [q |-> EMPTY, status |-> NULL, owner |-> EMPTY, source |-> NULL, order_by |-> "name ASC"],
    [q |-> <<"c">>, status |-> STATUSES[1], owner |-> <<"a">>, source |-> SOURCES[7],
     order_by |-> "created_at DESC"] }

\* the last two are mappings a caller builds with an order of its own
FetchFilters ==
  NoFilterMaps \cup {[q |-> t] : t \in Terms} \cup ViewMaps
    \cup {[order_by |-> "updated_at DESC"], [order_by |-> "status ASC"]}

NextFetch ==
  \/ Tick
  \/ lm_init_db
  \/ init_db
  \/ \E f \in FetchLmForms : lm_add_lead_form(f)
  \/ \E f \in FetchEnForms : add_lead_form(f)
  \/ \E flt \in FetchFilters : lm_fetch_leads(flt)
  \/ \E flt \in FetchFilters : fetch_leads(flt)

SpecFetch == Init /\ [][NextFetch]_vars

\* ------------------------------------------ specification of the searches
\* leads entered through the two sidebar forms and fetched by a free-text
\* term alone; the leads are entered within one second of the clock
SearchFilters == {[q |-> t] : t \in Terms}

NextSearch ==
  \/ lm_init_db
  \/ init_db
  \/ \E f \in FetchLmForms : lm_add_lead_form(f)
  \/ \E f \in FetchEnForms : add_lead_form(f)
  \/ \E flt \in SearchFilters : lm_fetch_leads(flt)
  \/ \E flt \in SearchFilters : fetch_leads(flt)

SpecSearch == Init /\ [][NextSearch]_vars

\* ------------------------------------- specification of concurrent editing
\* one lead has been entered through the sidebar form of either program; two
\* sessions open the edit form or the grid on it and save a change of status
SessionEdits == {[status |-> StatusWon], [status |-> STATUSES[6]]}

InitSessions ==
  /\ app \in {"lm", "en"}
  /\ DB_PATH = "abs"
  /\ tableExists = TRUE
  /\ cols = IF app = "lm" THEN LmCols ELSE EnCols
  /\ refUnique = (app = "en")
  /\ indexes = IF app = "lm" THEN {} ELSE IndexNames
  /\ rows = IF app = "lm"
            THEN \* the table after the form of crm_lead_manager added the lead
                 <<RowOf(lm_add_vals([name |-> Al, source |-> SOURCES[7],
                                      status |-> STATUSES[1], value |-> 0], 0))>>
            ELSE \* the table after add_lead has stored the form's lead
                 add_lead_result(<<>>, 0, EnForm(Al, EMPTY, EMPTY, STATUSES[1]),
                                 RandLo, 0).rows
  /\ seq = 1
  /\ now = 0
  /\ last = Call("none", 0, "none")
  /\ sessions = [s \in Sessions |-> Idle]

NextSessions ==
  \/ Tick
  \/ \E s \in Sessions : edit_lead(s, 1)
  \/ \E s \in Sessions, e \in SessionEdits : save_edit(s, e)
  \/ \E s \in Sessions : lm_show_grid(s, 1)
  \/ \E s \in Sessions, c \in SessionEdits : lm_save_grid(s, c)

SpecSessions == InitSessions /\ [][NextSessions]_vars

\* ------------------------------------------ specification of the backfill
\* init_db is started on a file whose leads table is older than that of
\* crm_lead_manager: it has neither the reference column nor the two
\* timestamp columns, the case the evolver's timestamp backfill provides
\* for; its leads hold a name and the defaults
InitBackfill ==
  /\ app = "none"
  /\ DB_PATH = "abs"
  /\ tableExists = TRUE
  /\ cols = LmCols \ TimeFields
  /\ refUnique = FALSE
  /\ indexes = {}
  /\ \E n \in 0..MaxLeads : rows = [i \in 1..n |-> RowOf([name |-> Al])] /\ seq = n
  /\ now = 0
  /\ last = Call("none", 0, "none")
  /\ sessions = [s \in Sessions |-> Idle]

NextBackfill ==
  \/ Tick
  \/ init_db
  \/ \E data \in AddData : add_lead(data)
  \/ \E id \in Ids : delete_lead(id)

SpecBackfill == InitBackfill /\ [][NextBackfill]_vars

\* -------------------------------------------- specification of the startup
\* the file is made by either program, leads are entered, and a start of
\* enhanced_crm runs with or without a failing schema statement
NextStartup ==
  \/ Tick
  \/ lm_init_db
  \/ lm_add_lead_form(LmForm(Al, EMPTY, EMPTY, STATUSES[1]))
  \/ init_db
  \/ \E n \in 0..14, recovers \in BOOLEAN : init_db_fault(n, recovers)
  \/ \E data \in AddData : add_lead(data)

SpecStartup == Init /\ [][NextStartup]_vars

\* ------------------------------ specification of crm_lead_manager's import
\* files of one and two rows: complete ones, one without the name column,
\* and files whose second row has a value that is no number or a blank name
TwoRows(columns, r1, r2) == [columns |-> columns, rows |-> <<r1, r2>>]

LmImportFiles ==
  { OneRow({"name"}, [name |-> Al]),
    OneRow({"email"}, [email |-> NULL]),
    TwoRows({"email", "value"}, [email |-> NULL, value |-> 0], [email |-> NULL, value |-> 0]),
    TwoRows({"name", "value"}, [name |-> Al, value |-> 0], [name |-> Ab, value |-> 1]),
    TwoRows({"name", "value"}, [name |-> Al, value |-> 0], [name |-> Ab, value |-> CsvBad]),
    TwoRows({"name", "value"}, [name |-> Al, value |-> 0], [name |-> NULL, value |-> 0]) }

NextImport ==
  \/ Tick
  \/ lm_init_db
  \/ lm_add_lead_form(LmForm(Al, EMPTY, EMPTY, STATUSES[1]))
  \/ \E file \in LmImportFiles : lm_import_csv(file)
  \/ \E eid \in Ids \cup {0}, did \in Ids \cup {0}, c \in StatusOnly : lm_save_changes(eid, c, did)

SpecImport == Init /\ [][NextImport]_vars

\* ------------------------------------ specification of the stored values
\* leads written by direct calls of add_lead and update_lead and by uploads
\* that bring a status outside the enumeration, a negative or blank value,
\* or timestamps of their own
Bogus == <<"B","a","d">>

ValueData ==
  { [name |-> Al],
    [name |-> Al, value |-> -1],
    [name |-> Al, status |-> Bogus] }

ValueLmFiles ==
  { OneRow({"name", "status", "value"}, [name |-> Al, status |-> Bogus, value |-> 0]),
    OneRow({"name", "value"}, [name |-> Al, value |-> -1]),
    OneRow({"name", "value"}, [name |-> Al, value |-> NULLV]) }

ValueEnFiles ==
  { OneRow({"name", "value", "status"}, [name |-> Al, value |-> 0, status |-> Bogus]),
    OneRow({"name", "value"}, [name |-> Al, value |-> -1]),
    OneRow({"name", "value"}, [name |-> Al, value |-> NULLV]),
    OneRow({"name", "value", "created_at", "updated_at"},
           [name |-> Al, value |-> 0, created_at |-> MaxTime, updated_at |-> 0]) }

NextValues ==
  \/ Tick
  \/ lm_init_db
  \/ init_db
  \/ \E data \in ValueData : lm_add_lead(data)
  \/ \E data \in ValueData : add_lead(data)
  \/ \E id \in Ids, u \in {[status |-> Bogus], [value |-> -1]} : update_lead(id, u)
  \/ \E file \in ValueLmFiles : lm_import_csv(file)
  \/ \E file \in ValueEnFiles : import_data(file)

SpecValues == Init /\ [][NextValues]_vars

\* ------------------------------------------ specification of the addresses
\* one lead stored by add_lead with the city X and the state S; update_lead
\* calls that change one address component each, run by two threads
AddressUpdates == { [city |-> <<"Y">>], [state |-> <<"T">>], [city |-> <<"X">>] }

InitAddress ==
  /\ app = "en"
  /\ DB_PATH = "abs"
  /\ tableExists = TRUE
  /\ cols = EnCols
  /\ refUnique = TRUE
  /\ indexes = IndexNames
  /\ rows = add_lead_result(<<>>, 0, [name |-> Al, city |-> <<"X">>, state |-> <<"S">>],
                            RandLo, 0).rows
  /\ seq = 1
  /\ now = 0
  /\ last = Call("none", 0, "none")
  /\ sessions = [s \in Sessions |-> Idle]

NextAddress ==
  \/ Tick
  \/ \E u \in AddressUpdates : update_lead(1, u)
  \/ \E s \in Sessions, u \in AddressUpdates : update_lead_read(s, 1, u)
  \/ \E s \in Sessions : update_lead_write(s)

SpecAddress == InitAddress /\ [][NextAddress]_vars

\* ----------------------------------------- specification of the identifiers
\* leads are added, imported and deleted in either program, within one
\* second of the clock
NextIds ==
  \/ lm_init_db
  \/ init_db
  \/ lm_add_lead_form(LmForm(Al, EMPTY, EMPTY, STATUSES[1]))
  \/ add_lead([name |-> Al])
  \/ \E file \in {OneRow({"name"}, [name |-> Al]),
                  TwoRows({"name", "value"}, [name |-> Al, value |-> 0],
                          [name |-> Ab, value |-> CsvBad])} : lm_import_csv(file)
  \/ import_data(OneRow({"name", "value"}, [name |-> Al, value |-> 0]))
  \/ \E did \in Ids : lm_save_changes(0, [status |-> StatusWon], did)
  \/ \E id \in Ids : delete_lead(id)

SpecIds == Init /\ [][NextIds]_vars

\* ================================================================== claims
\* C1: in every state of the enhanced leads table no two lead rows have the
\* same ref_number.
C1_RefNumbersUnique ==
  app = "en" =>
    \A i, j \in DOMAIN rows :
      (i # j /\ rows[i].ref_number # NULL) => rows[i].ref_number # rows[j].ref_number

\* C2: a second run of init_db right after a run that completed changes
\* nothing: the columns, the constraint, the indexes and every row stay as
\* they were.
C2_SecondRunIsNoOp ==
  [][(last.op = "init_db" /\ last.ret \in {"created", "migrated"} /\ init_db)
       => (tableExists' = tableExists /\ cols' = cols /\ refUnique' = refUnique
           /\ indexes' = indexes /\ rows' = rows)]_vars

\* a second run in a row has completed on a table of two or more leads
C2_Witness ==
  /\ last.op = "init_db"
  /\ last.count = 2
  /\ last.ret = "migrated"
  /\ Cardinality(DOMAIN rows) >= 2
  /\ ~refUnique

\* C3: add_lead called with the ref_number of an existing lead returns False,
\* inserts nothing and leaves every row as it was.
C3_CollidingAddFails ==
  [][\A data \in AddData :
       ( /\ "ref_number" \in DOMAIN data
         /\ \E i \in DOMAIN rows : rows[i].ref_number = data["ref_number"]
         /\ add_lead(data) )
       => (last'.ret = "False" /\ rows' = rows)]_vars

\* C4: an update_lead whose update set is the status alone leaves updated_at
\* of the lead strictly greater than before.
C4_StatusUpdateAdvancesUpdatedAt ==
  [][\A id \in Ids, u \in StatusOnly :
       (id \in DOMAIN rows /\ (update_lead(id, u) \/ lm_save_changes(id, u, 0)))
       => rows'[id].updated_at > rows[id].updated_at]_vars

\* C5: an edit that changes only the status of a lead leaves its other
\* fields, updated_at aside, as they were, and every other row untouched.
C5_StatusEditFrame ==
  [][\A id \in Ids, u \in StatusOnly :
       ( /\ id \in DOMAIN rows
         /\ update_lead(id, u) \/ save_changes(id, u) \/ lm_save_changes(id, u, 0) )
       => /\ DOMAIN rows' = DOMAIN rows
          /\ \A i \in DOMAIN rows : i # id => rows'[i] = rows[i]
          /\ \A f \in Fields \ {"status", "updated_at"} : rows'[id][f] = rows[id][f]]_vars

\* C6: every stored lead has a name that is not null, empty or blank.
C6_NameNeverEmpty ==
  \A i \in DOMAIN rows : rows[i].name # NULL /\ strip(rows[i].name) # EMPTY

\* C7: updated_at of a lead never decreases, and an update_lead that writes
\* the row sets it to the time of the call.
C7_UpdatedAtMonotone ==
  [][ /\ \A i \in DOMAIN rows \cap DOMAIN rows' :
           rows'[i].updated_at >= rows[i].updated_at
      /\ \A id \in Ids, u \in StatusOnly :
           (id \in DOMAIN rows /\ update_lead(id, u)) => rows'[id].updated_at = now ]_vars

\* C8: delete_lead removes the row with the id and no other, leaves the
\* other rows as they were, and is a silent no-op when no row has the id.
C8_DeleteExactlyOne ==
  [][\A id \in Ids :
       (delete_lead(id) \/ (app = "lm" /\ \E c \in Edits : lm_save_changes(0, c, id)))
       => /\ DOMAIN rows' = DOMAIN rows \ {id}
          /\ \A i \in DOMAIN rows' : rows'[i] = rows[i]
          /\ last'.ret = "ok"]_vars

\* delete_lead was called for an id the table has given out, that row is
\* gone and another lead is still stored
C8_Witness ==
  /\ last.op = "delete_lead"
  /\ last.id <= seq
  /\ last.id \notin DOMAIN rows
  /\ DOMAIN rows # {}

\* a filter mapping in which every field is absent or empty
NoFilter(filters) ==
  \A k \in DOMAIN filters :
    IF k = "order_by" THEN filters[k] \in {OrderNone, ""} ELSE ~Truthy(filters[k])

IsFetch == last.op \in {"fetch_leads", "lm_fetch_leads"}

CreatedDescending(out) ==
  \A i, j \in 1..Len(out) : i < j => rows[out[i]].created_at >= rows[out[j]].created_at

\* C9: fetch_leads with no filter set returns all the rows of the table, each
\* once, newest created_at first.
C9_NoFilterReturnsAll ==
  (IsFetch /\ NoFilter(last.filters)) =>
    /\ last.ret = "ok"
    /\ Range(last.out) = DOMAIN rows
    /\ Len(last.out) = Cardinality(DOMAIN rows)
    /\ CreatedDescending(last.out)

\* q occurs in s, letter for letter
Substring(q, s) ==
  s # NULL /\ \E k \in 0..(Len(s) - Len(q)) : \A j \in 1..Len(q) : s[k + j] = q[j]

\* q occurs in s when the case of ASCII letters is ignored
SubstringNoCase(q, s) ==
  s # NULL /\ \E k \in 0..(Len(s) - Len(q)) : \A j \in 1..Len(q) : Fold(s[k + j]) = Fold(q[j])

OnlyTerm(filters) == DOMAIN filters = {"q"} /\ Truthy(filters["q"])

NamedIn(q, r) == Substring(q, r.name) \/ Substring(q, r.email) \/ Substring(q, r.notes)

\* C10 as stated: a term that is a substring of the name, email or notes of
\* exactly one lead, given as the only filter, returns that one row.
C10_TermReturnsTheOneLead ==
  (IsFetch /\ OnlyTerm(last.filters)) =>
    \A i \in DOMAIN rows :
      ({j \in DOMAIN rows : NamedIn(last.filters["q"], rows[j])} = {i})
        => (last.ret = "ok" /\ last.out = <<i>>)

Searched == IF last.op = "lm_fetch_leads" THEN lm_search_cols ELSE search_cols

FoundIn(q, r, searched) == \E c \in searched : SubstringNoCase(q, r[c])

NoWildcard(q) == \A k \in 1..Len(q) : q[k] \notin {"%", "_"}

\* C10 amended: a term without % or _ that occurs, case of ASCII letters
\* ignored, in a searched column of exactly one lead returns that one row.
C10_TermReturnsTheOneMatch ==
  (IsFetch /\ OnlyTerm(last.filters) /\ NoWildcard(last.filters["q"])) =>
    \A i \in DOMAIN rows :
      ({j \in DOMAIN rows : FoundIn(last.filters["q"], rows[j], Searched)} = {i})
        => (last.ret = "ok" /\ last.out = <<i>>)

\* a fetch by a term found in one of two or more leads returned that lead
C10_Witness ==
  /\ IsFetch
  /\ OnlyTerm(last.filters)
  /\ NoWildcard(last.filters["q"])
  /\ Cardinality(DOMAIN rows) >= 2
  /\ \E i \in DOMAIN rows :
       /\ {j \in DOMAIN rows : FoundIn(last.filters["q"], rows[j], Searched)} = {i}
       /\ last.out = <<i>>
\* the ORDER BY text and WHERE clauses of the query the last fetch ran, and
\* the allow-list of the list view of the program that ran it
LastOrder ==
  IF last.op = "lm_fetch_leads" THEN lm_order(last.filters) ELSE order_of(last.filters)
LastClauses ==
  IF last.op = "lm_fetch_leads" THEN Clauses(last.filters, lm_like, " = ")
  ELSE Clauses(last.filters, en_like, "=")
AllowList == IF last.op = "lm_fetch_leads" THEN lm_order_options ELSE order_options
ClauseLiterals ==
  {lm_like, en_like, "status = ?", "status=?", "owner LIKE ?", "source = ?", "source=?"}

\* C11: the ORDER BY text of the query of every fetch_leads call is one of the
\* allow-listed 'column direction' literals, and the WHERE clauses are fixed
\* literals whose values are bound as parameters.
C11_OrderByAllowListed ==
  IsFetch =>
    /\ LastOrder \in AllowList
    /\ \A k \in 1..Len(LastClauses) : LastClauses[k] \in ClauseLiterals

\* a file of well-formed rows: a name in every row, a numeric value where the
\* file has a value column, a timestamp in every cell of a timestamp column
WellFormed(file) ==
  /\ "name" \in file.columns
  /\ \A i \in 1..Len(file.rows) :
       LET row == file.rows[i]
       IN  /\ row.name # NULL /\ strip(row.name) # EMPTY
           /\ "value" \in file.columns => row.value \notin {NULLV, CsvBad}
           /\ \A c \in TimeFields \cap file.columns : row[c] # NULLT

\* no reference code of the file is stored in the table
NoRefInTable(file) ==
  "ref_number" \in file.columns =>
    \A i \in 1..Len(file.rows), j \in DOMAIN rows :
      file.rows[i].ref_number = NULL \/ file.rows[i].ref_number # rows[j].ref_number

\* n rows were appended by the step, the stored rows are as they were, the
\* count n was reported and the new rows carry both timestamps
Appended(n) ==
  /\ Cardinality(DOMAIN rows') = Cardinality(DOMAIN rows) + n
  /\ \A i \in DOMAIN rows : i \in DOMAIN rows' /\ rows'[i] = rows[i]
  /\ last'.ret = "ok" /\ last'.count = n
  /\ \A i \in DOMAIN rows' \ DOMAIN rows :
       rows'[i].created_at # NULLT /\ rows'[i].updated_at # NULLT

\* C12: an import of N well-formed rows none of whose reference codes is in
\* the table appends exactly N rows, leaves the stored rows as they were,
\* reports N, and every appended row has created_at and updated_at.
C12_ImportAppendsAll ==
  [][ /\ \A file \in EnFiles :
           (WellFormed(file) /\ NoRefInTable(file) /\ import_data(file))
             => Appended(Len(file.rows))
      /\ \A file \in LmFiles :
           (WellFormed(file) /\ lm_import_csv(file)) => Appended(Len(file.rows)) ]_vars

\* an empty or whitespace-only name
BlankName(data) == "name" \in DOMAIN data /\ data["name"] # NULL /\ strip(data["name"]) = EMPTY

\* C13: add_lead with an empty or whitespace-only name reports a failure and
\* leaves the leads table as it was.
C13_BlankNameWritesNothing ==
  [][ /\ \A data \in AddData :
           (BlankName(data) /\ add_lead(data)) => (rows' = rows /\ last'.ret = "False")
      /\ \A f \in EnForms :
           (strip(f.name) = EMPTY /\ add_lead_form(f))
             => (rows' = rows /\ last'.ret = "name_required")
      /\ \A f \in LmForms :
           (strip(f.name) = EMPTY /\ lm_add_lead_form(f))
             => (rows' = rows /\ last'.ret = "name_required")
      /\ \A data \in LmAddData :
           (BlankName(data) /\ lm_add_lead(data))
             => (rows' = rows /\ last'.ret # "ok") ]_vars

\* the last call was a save by a session whose lead is still stored
SessionSaved ==
  /\ last.op \in {"save_edit", "lm_save_grid"}
  /\ sessions[last.count].phase = "saved"
  /\ last.id \in DOMAIN rows

\* C14: a save by a session succeeds whatever happened to the row since the
\* session read it, and every field it wrote holds the value of that save
\* until the next save: the save that committed last wins.
C14_LastWriteWins ==
  SessionSaved =>
    /\ last.ret = "ok"
    /\ \A f \in DOMAIN sessions[last.count].wrote :
         rows[last.id][f] = sessions[last.count].wrote[f]

\* two sessions drew their forms from the same state of one lead, each saved
\* another status, and the status stored is that of the later save
C14_Witness ==
  /\ SessionSaved
  /\ last.ret = "ok"
  /\ \E s \in Sessions \ {last.count} :
       LET mine == sessions[last.count]
           theirs == sessions[s]
       IN  /\ theirs.phase = "saved"
           /\ theirs.id = mine.id
           /\ theirs.row = mine.row
           /\ "status" \in DOMAIN theirs.wrote \cap DOMAIN mine.wrote
           /\ theirs.wrote["status"] # mine.row.status
           /\ mine.wrote["status"] # mine.row.status
           /\ theirs.wrote["status"] # mine.wrote["status"]
           /\ rows[mine.id].status = mine.wrote["status"]

\* C15: after a run of init_db on a leads table that was there before it,
\* every column of the enhanced CREATE TABLE is a column of the table.
C15_TargetColumnsPresent ==
  [][(tableExists /\ init_db) => EnCols \subseteq cols']_vars

\* init_db has migrated a table made by crm_lead_manager that holds leads
C15_Witness ==
  /\ last.op = "init_db"
  /\ last.ret = "migrated"
  /\ last.count = 1
  /\ "company" \in cols
  /\ EnCols \subseteq cols
  /\ rows # <<>>

\* C16: a run of init_db keeps every column the table had, under its name,
\* and every lead row that was stored.
C16_AdditiveOnly ==
  [][init_db => (cols \subseteq cols' /\ DOMAIN rows \subseteq DOMAIN rows')]_vars

\* after a migration the table has the older company column next to place,
\* and the leads entered before it
C16_Witness ==
  /\ last.op = "init_db"
  /\ last.ret = "migrated"
  /\ {"company", "place"} \subseteq cols
  /\ \E i \in DOMAIN rows : rows[i].created_at < now

\* the column c of row r holds a value: not NULL, not empty
Filled(r, c) == IF c \in TimeFields THEN r[c] # NULLT ELSE Truthy(r[c])

BackfilledCols == {"ref_number", "created_at", "updated_at"}

\* C17: when a run of init_db adds ref_number, created_at or updated_at to a
\* table that was there, every row stored before the run has a value in that
\* column after it.
C17_BackfillLeavesNoNull ==
  [][(tableExists /\ init_db) =>
       \A c \in BackfilledCols \cap (cols' \ cols) :
         \A i \in DOMAIN rows : i \in DOMAIN rows' /\ Filled(rows'[i], c)]_vars

\* a run has added the three columns to a table holding leads, and each lead
\* has a reference code and the two timestamps
C17_Witness ==
  /\ last.op = "init_db"
  /\ BackfilledCols \subseteq last.keys
  /\ Cardinality(DOMAIN rows) >= 2
  /\ \A i \in DOMAIN rows : \A c \in BackfilledCols : Filled(rows[i], c)

\* C18: when a schema statement of init_db fails, init_db does not return
\* normally and the application does not go on to serve requests.
C18_DdlErrorAbortsStartup ==
  [][\A n \in 0..14, recovers \in BOOLEAN :
       init_db_fault(n, recovers) => (last'.ret = "aborted" /\ app' # "en")]_vars

\* C19: no data operation (add_lead, update_lead, delete_lead, fetch_leads,
\* called directly or by a handler) lets a database error escape as an
\* uncaught exception; a failing operation reports a message and returns.
DataOps ==
  {"lm_add_lead", "lm_add_lead_form", "lm_save_changes", "lm_save_grid",
   "lm_fetch_leads", "add_lead", "add_lead_form", "update_lead", "save_edit",
   "delete_lead", "fetch_leads"}

C19_NoEscapingDbError == last.op \in DataOps => last.ret # "raise"

\* the condition on a row as the filters are described: the term occurs,
\* case ignored, in a searched column, the owner contains the owner filter,
\* status and source equal theirs; a filter not supplied asks nothing
Satisfies(r, filters, searched) ==
  /\ Has(filters, "q") => FoundIn(filters["q"], r, searched)
  /\ Has(filters, "status") => r.status = filters["status"]
  /\ Has(filters, "owner") => SubstringNoCase(filters["owner"], r.owner)
  /\ Has(filters, "source") => r.source = filters["source"]

\* C20: fetch_leads returns exactly the rows that satisfy the conjunction of
\* the supplied filters, each once; a filter not supplied excludes no row.
C20_ReturnsExactlyMatching ==
  IsFetch =>
    /\ Range(last.out) = {i \in DOMAIN rows : Satisfies(rows[i], last.filters, Searched)}
    /\ \A j, k \in 1..Len(last.out) : j # k => last.out[j] # last.out[k]

\* C21: import_csv on a file without the name column fails with an error
\* naming the missing column and leaves the leads table as it was.
C21_MissingNameImportsNothing ==
  [][\A file \in LmImportFiles :
       ("name" \notin file.columns /\ lm_import_csv(file))
         => /\ rows' = rows
            /\ last'.ret = "missing_name"
            /\ last'.keys = {"name"}]_vars

\* an upload without the name column was refused on a table holding a lead
C21_Witness ==
  /\ last.op = "lm_import_csv"
  /\ last.ret = "missing_name"
  /\ DOMAIN rows # {}

\* a row of the file makes the import raise: the name column is missing, a
\* value is no number, or a name is blank (NOT NULL)
FileRaises(file) ==
  \/ "name" \notin file.columns
  \/ \E i \in 1..Len(file.rows) :
       \/ file.rows[i]["name"] = NULL
       \/ "value" \in file.columns /\ file.rows[i]["value"] = CsvBad

\* C25: import_csv of crm_lead_manager is all-or-nothing: when a row of the
\* file raises no row of the file is stored, the earlier ones included;
\* otherwise every row is stored.
C25_ImportAllOrNothing ==
  [][\A file \in LmImportFiles :
       lm_import_csv(file) =>
         IF FileRaises(file)
         THEN rows' = rows
         ELSE /\ DOMAIN rows' = DOMAIN rows \cup ((seq + 1)..(seq + Len(file.rows)))
              /\ \A i \in DOMAIN rows : rows'[i] = rows[i]
              /\ \A k \in 1..Len(file.rows) : rows'[seq + k].name = file.rows[k]["name"]]_vars

\* an import raised at a row after one it had inserted, and the table holds
\* no row
C25_Witness ==
  /\ last.op = "lm_import_csv"
  /\ last.ret = "raise"
  /\ last.count >= 1
  /\ DOMAIN rows = {}

\* C22: the status of every stored lead is a member of STATUSES, whatever
\* add_lead, update_lead and the CSV imports were given.
C22_StatusInEnumeration == \A i \in DOMAIN rows : InSeq(rows[i].status, STATUSES)

\* C23: the value of every stored lead is a non-negative number, and a lead
\* added without a value has the value 0.
C23_ValueNonNegative ==
  [][ /\ \A i \in DOMAIN rows' : rows'[i].value # NULLV /\ rows'[i].value >= 0
      /\ \A data \in ValueData :
           (("value" \notin DOMAIN data) /\ (add_lead(data) \/ lm_add_lead(data))
              /\ seq' = seq + 1)
             => rows'[seq'].value = 0 ]_vars

\* C27: every stored lead has created_at <= updated_at.
C27_CreatedBeforeUpdated == \A i \in DOMAIN rows : rows[i].created_at <= rows[i].updated_at

\* C24: while no update_lead call is in progress, the full_address of every
\* lead equals format_address of its stored street_address, city, state,
\* zip_code and country, also after two update_lead calls on one lead that
\* change different components have interleaved.
C24_FullAddressMatches ==
  (\A s \in Sessions : sessions[s].phase # "updating") =>
    \A i \in DOMAIN rows :
      rows[i].full_address =
        format_address(rows[i].street_address, rows[i].city, rows[i].state,
                       rows[i].zip_code, rows[i].country)

\* C26: identifiers are never reused. seq is the largest id given so far:
\* it never decreases, every stored id is at most seq, and the id of every
\* newly inserted lead is greater than seq was, hence greater than every id
\* given before, those of deleted leads included.
C26_IdsNeverReused ==
  [][ /\ seq' >= seq
      /\ DOMAIN rows' \subseteq 1..seq'
      /\ \A i \in DOMAIN rows' \ DOMAIN rows : i > seq ]_vars

\* the lead with the largest id was deleted before the last insert, which
\* was given the next id
C26_Witness ==
  /\ last.op \in {"add_lead", "lm_add_lead_form", "lm_import_csv", "import_data"}
  /\ last.ret \in {"True", "ok"}
  /\ seq >= 2
  /\ seq \in DOMAIN rows
  /\ (seq - 1) \notin DOMAIN rows
====
